---- MODULE Spec2Model ----
(***************************************************************************)
(* State-machine model of the WeatherMap widget (src/pages/Index.tsx):     *)
(* the token gate, the map-instance lifecycle effect, the overlay-update   *)
(* effect, the style.load handler and addOrUpdateWeatherLayer.             *)
(*                                                                         *)
(* JavaScript runs one handler at a time: while pc # "idle" a call of      *)
(* addOrUpdateWeatherLayer is in progress and no other action is enabled.  *)
(* The positions of pc are the line numbers of the SDK calls it makes.     *)
(***************************************************************************)
EXTENDS Integers, Sequences, FiniteSets, TLC

\* Bound of the model: map instances created in one page lifetime.
MaxMaps == 2

VARIABLES
    storage,      \* localStorage entry MAPBOX_TOKEN: None or Some(string)
    mounted,      \* the widget is mounted
    mapboxToken,  \* React state, line 56
    variable,     \* React state, line 59
    timestep,     \* React state, line 60
    mapRef,       \* mapRef.current: 0 is null, otherwise an instance id
    cleanupMap,   \* the `map` captured by the pending effect cleanup, 0 if none
    accessToken,  \* mapboxgl.accessToken (SDK global)
    maps,         \* every map instance of the page, by id
    pc,           \* position inside addOrUpdateWeatherLayer, or "idle"
    call,         \* the running call's closure values and its `tiles` local
    sdkStrict \* this SDK build rejects style mutations before style.load

vars == <<storage, mounted, mapboxToken, variable, timestep, mapRef,
          cleanupMap, accessToken, maps, pc, call, sdkStrict>>

---------------------------------------------------------------------------
\* Constants of the program

VARIABLES_KEYS == <<"air_temperature", "wind_stream", "precipitation_shaded">>
VariableKey == {VARIABLES_KEYS[i] : i \in DOMAIN VARIABLES_KEYS}

TIMESTEPS == {0, 6, 12, 24, 36, 48, 60, 72}

WEATHER_SOURCE_ID == "weather-tiles"
WEATHER_LAYER_ID == "weather-tiles-layer"

DEFAULT_VARIABLE == "air_temperature"
DEFAULT_TIMESTEP == 6

SLIDER_MIN == 0
SLIDER_MAX == 72
SLIDER_STEP == 6
\* The values a stepped range control can emit: min + k*step, up to max.
SliderValues ==
    {SLIDER_MIN + k * SLIDER_STEP :
        k \in 0 .. ((SLIDER_MAX - SLIDER_MIN) \div SLIDER_STEP)}

TILE_SIZE == 256
\* "raster-opacity": 0.85, in hundredths
RASTER_OPACITY_PCT == 85

\* Token strings a user can type or that storage can hold.
TokenValues == {"pk.a", "pk.b"}

---------------------------------------------------------------------------
\* string | null

None == <<>>
Some(s) == <<s>>
\* JavaScript truthiness of a string | null: null and "" are falsy.
Truthy(o) == o # None /\ o[1] # ""

---------------------------------------------------------------------------
\* buildWeatherTiles

Digits == <<"0", "1", "2", "3", "4", "5", "6", "7", "8", "9">>

\* Number-to-string conversion of a template literal, for naturals.
RECURSIVE DecStr(_)
DecStr(n) ==
    IF n < 10 THEN Digits[n + 1]
    ELSE DecStr(n \div 10) \o Digits[(n % 10) + 1]

buildWeatherTiles_NoSuffix(v, t) ==
    "https://weather.openportguide.de/tiles/actual/" \o v \o "/"
        \o DecStr(t) \o "/{z}/{x}/{y}.png"

buildWeatherTiles(v, t) ==
    "https://weather.openportguide.de/tiles/actual/" \o v \o "/"
        \o DecStr(t) \o "h/{z}/{x}/{y}.png"

---------------------------------------------------------------------------
\* The mapping SDK, as the widget uses it.  A map instance is a record; its
\* sources and layers are kept in insertion order.

NoMap ==
    [status |-> "none", loaded |-> FALSE, fog |-> FALSE,
     sources |-> <<>>, layers |-> <<>>, removeCalls |-> 0,
     handler |-> <<>>, scrollZoom |-> TRUE, controls |-> 0]

\* new mapboxgl.Map(...), addControl, on("style.load", ...), scrollZoom.disable()
\* The style.load listener closes over the render's variable and timestep.
NewMap(v, t) ==
    [status |-> "live", loaded |-> FALSE, fog |-> FALSE,
     sources |-> <<>>, layers |-> <<>>, removeCalls |-> 0,
     handler |-> <<[variable |-> v, timestep |-> t]>>,
     scrollZoom |-> FALSE, controls |-> 1]

\* map.remove(): the instance releases its style, sources, layers, listeners.
Removed(m) ==
    [m EXCEPT !.status = "removed", !.loaded = FALSE, !.fog = FALSE,
              !.sources = <<>>, !.layers = <<>>,
              !.removeCalls = @ + 1, !.handler = <<>>]

HasId(seq, id) == \E i \in DOMAIN seq : seq[i].id = id
WithoutId(seq, id) == SelectSeq(seq, LAMBDA e : e.id # id)
CountId(seq, id) == Cardinality({i \in DOMAIN seq : seq[i].id = id})

getLayer(m, id) == HasId(m.layers, id)
getSource(m, id) == HasId(m.sources, id)
removeLayer(m, id) == [m EXCEPT !.layers = WithoutId(@, id)]
removeSource(m, id) == [m EXCEPT !.sources = WithoutId(@, id)]
addSource(m, id, tiles) ==
    [m EXCEPT !.sources =
        Append(@, [id |-> id, type |-> "raster", tiles |-> tiles,
                   tileSize |-> TILE_SIZE])]
addLayer(m, id, src) ==
    [m EXCEPT !.layers =
        Append(@, [id |-> id, type |-> "raster", source |-> src,
                   opacity |-> RASTER_OPACITY_PCT])]

MapIds == 1 .. MaxMaps
Created(ms) == {i \in DOMAIN ms : ms[i].status # "none"}
Live(ms) == {i \in DOMAIN ms : ms[i].status = "live"}
NextId(ms) == Cardinality(Created(ms)) + 1

---------------------------------------------------------------------------
\* addOrUpdateWeatherLayer, statement by statement

IdleCall == [variable |-> DEFAULT_VARIABLE, timestep |-> DEFAULT_TIMESTEP,
             tiles |-> <<>>, from |-> "none"]

\* lines 115-118: read mapRef.current, return if null, build `tiles`.
\* `from` is the caller: the update effect or the style.load listener.
StartCall(ref, v, t, from) ==
    IF ref = 0
    THEN [pc |-> "idle", call |-> IdleCall]
    ELSE [pc |-> "L121",
          call |-> [variable |-> v, timestep |-> t,
                    tiles |-> <<buildWeatherTiles(v, t)>>, from |-> from]]

Line121_Skip(m) == m

\* lines 121-123
Line121(m) ==
    IF getLayer(m, WEATHER_LAYER_ID) THEN removeLayer(m, WEATHER_LAYER_ID) ELSE m

Line124_Skip(m) == m

\* lines 124-126
Line124(m) ==
    IF getSource(m, WEATHER_SOURCE_ID) THEN removeSource(m, WEATHER_SOURCE_ID) ELSE m

\* lines 128-134
Line128(m, tiles) == addSource(m, WEATHER_SOURCE_ID, tiles)

\* lines 136-143
Line136(m) == addLayer(m, WEATHER_LAYER_ID, WEATHER_SOURCE_ID)

\* The whole call on a style-loaded instance.
addOrUpdateWeatherLayer(m, v, t) ==
    Line136(Line128(Line124(Line121(m)), <<buildWeatherTiles(v, t)>>))

---------------------------------------------------------------------------
\* Effects

InitDepsChanged_EveryRender(o, n) == TRUE

\* line 105: the map-init effect's dependency list is [mapboxToken]
InitDepsChanged(o, n) == o.mapboxToken # n.mapboxToken

\* line 112: the update effect's dependency list is [variable, timestep]
UpdateDepsChanged(o, n) == o.variable # n.variable \/ o.timestep # n.timestep

Cleanup_KeepRef(c, ref, ms) ==
    IF c = 0 THEN [mapRef |-> ref, maps |-> ms]
    ELSE [mapRef |-> ref, maps |-> [ms EXCEPT ![c] = Removed(@)]]

\* lines 100-103: the cleanup returned by the map-init effect (c = 0: the
\* effect returned early and registered none)
Cleanup(c, ref, ms) ==
    IF c = 0 THEN [mapRef |-> ref, maps |-> ms]
    ELSE [mapRef |-> 0, maps |-> [ms EXCEPT ![c] = Removed(@)]]

\* lines 63-99: the map-init effect (the container div is always rendered,
\* so mapContainer.current is set whenever the effect runs)
InitEffect(tok, v, t, ref, ms, acc) ==
    IF ~Truthy(tok)
    THEN [mapRef |-> ref, maps |-> ms, cleanup |-> 0, accessToken |-> acc]
    ELSE LET id == NextId(ms) IN
         [mapRef |-> id, maps |-> [ms EXCEPT ![id] = NewMap(v, t)],
          cleanup |-> id, accessToken |-> tok]

\* lines 108-112: the update effect
UpdateEffect(ref, v, t) ==
    IF ref = 0 THEN [pc |-> "idle", call |-> IdleCall]
    ELSE StartCall(ref, v, t, "effect")

\* line 154: the token-entry form is rendered
FormRendered == mounted /\ ~Truthy(mapboxToken)

Idle == pc = "idle"

ReactState == [mapboxToken |-> mapboxToken, variable |-> variable,
               timestep |-> timestep]

\* A state update followed by the re-render's commit: cleanups of the effects
\* whose dependencies changed, then those effects in declaration order.
Commit(n) ==
    LET o  == ReactState
        ic == InitDepsChanged(o, n)
        c1 == IF ic THEN Cleanup(cleanupMap, mapRef, maps)
              ELSE [mapRef |-> mapRef, maps |-> maps]
        e1 == IF ic
              THEN InitEffect(n.mapboxToken, n.variable, n.timestep,
                              c1.mapRef, c1.maps, accessToken)
              ELSE [mapRef |-> mapRef, maps |-> maps, cleanup |-> cleanupMap,
                    accessToken |-> accessToken]
        u  == IF UpdateDepsChanged(o, n)
              THEN UpdateEffect(e1.mapRef, n.variable, n.timestep)
              ELSE [pc |-> "idle", call |-> IdleCall]
    IN  /\ (ic /\ Truthy(n.mapboxToken)) => NextId(c1.maps) <= MaxMaps
        /\ mapboxToken' = n.mapboxToken
        /\ variable' = n.variable
        /\ timestep' = n.timestep
        /\ mapRef' = e1.mapRef
        /\ maps' = e1.maps
        /\ cleanupMap' = e1.cleanup
        /\ accessToken' = e1.accessToken
        /\ pc' = u.pc
        /\ call' = u.call

---------------------------------------------------------------------------
\* Initial state: the page is loaded, the widget not yet mounted.

Init ==
    /\ storage \in {None, Some("")} \cup {Some(s) : s \in TokenValues}
    /\ mounted = FALSE
    /\ mapboxToken = None
    /\ variable = DEFAULT_VARIABLE
    /\ timestep = DEFAULT_TIMESTEP
    /\ mapRef = 0
    /\ cleanupMap = 0
    /\ accessToken = None
    /\ maps = [i \in MapIds |-> NoMap]
    /\ pc = "idle"
    /\ call = IdleCall
    /\ sdkStrict \in BOOLEAN

\* First render and mount: useState initialisers (lines 56-60), then both
\* effects in declaration order.
Mount ==
    /\ ~mounted
    /\ Idle
    /\ Truthy(storage) => NextId(maps) <= MaxMaps
    /\ LET e1 == InitEffect(storage, DEFAULT_VARIABLE, DEFAULT_TIMESTEP,
                            0, maps, accessToken)
           u  == UpdateEffect(e1.mapRef, DEFAULT_VARIABLE, DEFAULT_TIMESTEP)
       IN  /\ mounted' = TRUE
           /\ mapboxToken' = storage
           /\ variable' = DEFAULT_VARIABLE
           /\ timestep' = DEFAULT_TIMESTEP
           /\ mapRef' = e1.mapRef
           /\ maps' = e1.maps
           /\ cleanupMap' = e1.cleanup
           /\ accessToken' = e1.accessToken
           /\ pc' = u.pc
           /\ call' = u.call
    /\ UNCHANGED <<storage, sdkStrict>>

\* The widget is unmounted: the pending cleanup runs and the component's
\* state is gone (a later mount starts from a fresh ref, see Mount).
Unmounting ==
    /\ LET c1 == Cleanup(cleanupMap, mapRef, maps)
       IN  /\ maps' = c1.maps
           /\ mapRef' = c1.mapRef
    /\ mounted' = FALSE
    /\ mapboxToken' = None
    /\ variable' = DEFAULT_VARIABLE
    /\ timestep' = DEFAULT_TIMESTEP
    /\ cleanupMap' = 0
    /\ pc' = "idle"
    /\ call' = IdleCall
    /\ UNCHANGED <<storage, accessToken, sdkStrict>>

\* Unmount by the host page (navigation away).
Unmount ==
    /\ mounted
    /\ Idle
    /\ Unmounting

\* line 164: typing into the token field
SetMapboxToken(s) ==
    /\ FormRendered
    /\ Idle
    /\ Commit([ReactState EXCEPT !.mapboxToken = Some(s)])
    /\ UNCHANGED <<storage, mounted, sdkStrict>>

\* line 167: the Clear button
Clear ==
    /\ FormRendered
    /\ Idle
    /\ Commit([ReactState EXCEPT !.mapboxToken = Some("")])
    /\ UNCHANGED <<storage, mounted, sdkStrict>>

\* lines 146-150 behind the Save button of line 168.  location.reload()
\* discards the page: nothing of the script's heap survives it.
saveToken ==
    /\ FormRendered
    /\ Idle
    /\ IF ~Truthy(mapboxToken)
       THEN UNCHANGED vars
       ELSE /\ storage' = Some(mapboxToken[1])
            /\ mounted' = FALSE
            /\ mapboxToken' = None
            /\ variable' = DEFAULT_VARIABLE
            /\ timestep' = DEFAULT_TIMESTEP
            /\ mapRef' = 0
            /\ cleanupMap' = 0
            /\ accessToken' = None
            /\ maps' = [i \in MapIds |-> NoMap]
            /\ pc' = "idle"
            /\ call' = IdleCall
            /\ UNCHANGED sdkStrict

\* line 182: the variable dropdown
SetVariable(v) ==
    /\ mounted
    /\ Idle
    /\ v # variable
    /\ Commit([ReactState EXCEPT !.variable = v])
    /\ UNCHANGED <<storage, mounted, sdkStrict>>

\* lines 208-214: the lead-time slider
SetTimestep(t) ==
    /\ mounted
    /\ Idle
    /\ t # timestep
    /\ Commit([ReactState EXCEPT !.timestep = t])
    /\ UNCHANGED <<storage, mounted, sdkStrict>>

\* lines 86-95: the style.load listener of instance i.  The SDK emits the
\* event once per instance, and never for a removed instance; the closure is
\* kept in the instance only until then.  setFog may fail; the failure is
\* swallowed.  The refresh it then runs uses the variable and timestep of
\* the render that created the instance, and acts on mapRef.current.
StyleLoad(i) ==
    /\ Idle
    /\ maps[i].status = "live"
    /\ ~maps[i].loaded
    /\ \E fogOk \in BOOLEAN :
          maps' = [maps EXCEPT ![i].loaded = TRUE, ![i].fog = fogOk,
                               ![i].handler = <<>>]
    /\ LET h == maps[i].handler[1]
           s == StartCall(mapRef, h.variable, h.timestep, "listener")
       IN  /\ pc' = s.pc
           /\ call' = s.call
    /\ UNCHANGED <<storage, mounted, mapboxToken, variable, timestep, mapRef,
                   cleanupMap, accessToken, sdkStrict>>

Rest == <<storage, mounted, mapboxToken, variable, timestep, mapRef,
          cleanupMap, accessToken, sdkStrict>>

AtL121 ==
    /\ pc = "L121"
    /\ maps' = [maps EXCEPT ![mapRef] = Line121(@)]
    /\ pc' = "L124"
    /\ UNCHANGED <<call, Rest>>

AtL124 ==
    /\ pc = "L124"
    /\ maps' = [maps EXCEPT ![mapRef] = Line124(@)]
    /\ pc' = "L128"
    /\ UNCHANGED <<call, Rest>>

\* Whether the SDK rejects a style mutation (addSource, addLayer) on
\* instance m.  After style.load it never does.  Before style.load the SDK's
\* answer is not decided by this repository: a build either throws there or
\* accepts the call.  getLayer and getSource answer at any time.
SdkRejects(m) == sdkStrict /\ ~m.loaded

\* An exception leaves the running call.  Thrown inside the update effect it
\* leaves the effect too, and React unmounts the widget (lines 108-112 catch
\* nothing); thrown inside the style.load listener it ends the listener.
Throw ==
    IF call.from = "effect"
    THEN Unmounting
    ELSE /\ pc' = "idle"
         /\ call' = IdleCall
         /\ UNCHANGED <<maps, Rest>>

\* map.addSource
AtL128 ==
    /\ pc = "L128"
    /\ IF SdkRejects(maps[mapRef])
       THEN Throw
       ELSE /\ maps' = [maps EXCEPT ![mapRef] = Line128(@, call.tiles)]
            /\ pc' = "L136"
            /\ UNCHANGED <<call, Rest>>

\* map.addLayer
AtL136 ==
    /\ pc = "L136"
    /\ IF SdkRejects(maps[mapRef])
       THEN Throw
       ELSE /\ maps' = [maps EXCEPT ![mapRef] = Line136(@)]
            /\ pc' = "idle"
            /\ call' = IdleCall
            /\ UNCHANGED Rest

Next ==
    \/ Mount
    \/ Unmount
    \/ \E s \in TokenValues : SetMapboxToken(s)
    \/ Clear
    \/ saveToken
    \/ \E v \in VariableKey : SetVariable(v)
    \/ \E t \in SliderValues : SetTimestep(t)
    \/ \E i \in MapIds : StyleLoad(i)
    \/ AtL121
    \/ AtL124
    \/ AtL128
    \/ AtL136

Spec == Init /\ [][Next]_vars

---------------------------------------------------------------------------
\* Properties

\* The tile URL the endpoint defines for each variable key and lead-time,
\* written out.
ExpectedTileUrl ==
    (  <<"air_temperature", 0>> :>
         "https://weather.openportguide.de/tiles/actual/air_temperature/0h/{z}/{x}/{y}.png"
    @@ <<"air_temperature", 6>> :>
         "https://weather.openportguide.de/tiles/actual/air_temperature/6h/{z}/{x}/{y}.png"
    @@ <<"air_temperature", 12>> :>
         "https://weather.openportguide.de/tiles/actual/air_temperature/12h/{z}/{x}/{y}.png"
    @@ <<"air_temperature", 24>> :>
         "https://weather.openportguide.de/tiles/actual/air_temperature/24h/{z}/{x}/{y}.png"
    @@ <<"air_temperature", 36>> :>
         "https://weather.openportguide.de/tiles/actual/air_temperature/36h/{z}/{x}/{y}.png"
    @@ <<"air_temperature", 48>> :>
         "https://weather.openportguide.de/tiles/actual/air_temperature/48h/{z}/{x}/{y}.png"
    @@ <<"air_temperature", 60>> :>
         "https://weather.openportguide.de/tiles/actual/air_temperature/60h/{z}/{x}/{y}.png"
    @@ <<"air_temperature", 72>> :>
         "https://weather.openportguide.de/tiles/actual/air_temperature/72h/{z}/{x}/{y}.png"
    @@ <<"wind_stream", 0>> :>
         "https://weather.openportguide.de/tiles/actual/wind_stream/0h/{z}/{x}/{y}.png"
    @@ <<"wind_stream", 6>> :>
         "https://weather.openportguide.de/tiles/actual/wind_stream/6h/{z}/{x}/{y}.png"
    @@ <<"wind_stream", 12>> :>
         "https://weather.openportguide.de/tiles/actual/wind_stream/12h/{z}/{x}/{y}.png"
    @@ <<"wind_stream", 24>> :>
         "https://weather.openportguide.de/tiles/actual/wind_stream/24h/{z}/{x}/{y}.png"
    @@ <<"wind_stream", 36>> :>
         "https://weather.openportguide.de/tiles/actual/wind_stream/36h/{z}/{x}/{y}.png"
    @@ <<"wind_stream", 48>> :>
         "https://weather.openportguide.de/tiles/actual/wind_stream/48h/{z}/{x}/{y}.png"
    @@ <<"wind_stream", 60>> :>
         "https://weather.openportguide.de/tiles/actual/wind_stream/60h/{z}/{x}/{y}.png"
    @@ <<"wind_stream", 72>> :>
         "https://weather.openportguide.de/tiles/actual/wind_stream/72h/{z}/{x}/{y}.png"
    @@ <<"precipitation_shaded", 0>> :>
         "https://weather.openportguide.de/tiles/actual/precipitation_shaded/0h/{z}/{x}/{y}.png"
    @@ <<"precipitation_shaded", 6>> :>
         "https://weather.openportguide.de/tiles/actual/precipitation_shaded/6h/{z}/{x}/{y}.png"
    @@ <<"precipitation_shaded", 12>> :>
         "https://weather.openportguide.de/tiles/actual/precipitation_shaded/12h/{z}/{x}/{y}.png"
    @@ <<"precipitation_shaded", 24>> :>
         "https://weather.openportguide.de/tiles/actual/precipitation_shaded/24h/{z}/{x}/{y}.png"
    @@ <<"precipitation_shaded", 36>> :>
         "https://weather.openportguide.de/tiles/actual/precipitation_shaded/36h/{z}/{x}/{y}.png"
    @@ <<"precipitation_shaded", 48>> :>
         "https://weather.openportguide.de/tiles/actual/precipitation_shaded/48h/{z}/{x}/{y}.png"
    @@ <<"precipitation_shaded", 60>> :>
         "https://weather.openportguide.de/tiles/actual/precipitation_shaded/60h/{z}/{x}/{y}.png"
    @@ <<"precipitation_shaded", 72>> :>
         "https://weather.openportguide.de/tiles/actual/precipitation_shaded/72h/{z}/{x}/{y}.png" )

Overlay(m) == m.sources[1]

\* C1: for every variable key v and every lead-time t of TIMESTEPS,
\* buildWeatherTiles(v, t) is the endpoint's URL with v and t substituted, "h"
\* appended to t and the {z}/{x}/{y} placeholders intact; so is the `tiles`
\* entry of every running refresh whose lead-time is one of TIMESTEPS.
C1_BuilderUrl ==
    /\ \A v \in VariableKey : \A t \in TIMESTEPS :
          buildWeatherTiles(v, t) = ExpectedTileUrl[<<v, t>>]
    /\ (pc # "idle" /\ call.timestep \in TIMESTEPS) =>
          call.tiles = <<ExpectedTileUrl[<<call.variable, call.timestep>>]>>

C1_Witness ==
    /\ pc = "L128"
    /\ call.variable = "wind_stream"
    /\ call.timestep = 12
    /\ call.tiles =
         <<"https://weather.openportguide.de/tiles/actual/wind_stream/12h/{z}/{x}/{y}.png">>

\* C2: on every map instance, at every step of addOrUpdateWeatherLayer, there
\* is at most one source "weather-tiles" and at most one layer
\* "weather-tiles-layer", and every layer's source exists.
C2_OneOverlay ==
    \A i \in MapIds :
        /\ CountId(maps[i].sources, WEATHER_SOURCE_ID) <= 1
        /\ CountId(maps[i].layers, WEATHER_LAYER_ID) <= 1
        /\ \A k \in DOMAIN maps[i].layers :
              HasId(maps[i].sources, maps[i].layers[k].source)

\* Inside a refresh of an existing overlay: the layer is gone, the source is
\* still there.
C2_Witness ==
    /\ pc = "L124"
    /\ getSource(maps[mapRef], WEATHER_SOURCE_ID)
    /\ ~getLayer(maps[mapRef], WEATHER_LAYER_ID)

\* C3 (as claimed): while storage holds no non-empty token, the token-entry
\* form is rendered and no map instance exists.
C3_NoMapWithoutPersistedToken ==
    (mounted /\ ~Truthy(storage)) =>
        (FormRendered /\ Created(maps) = {} /\ mapRef = 0)

\* C4 (as claimed): a user who has entered a non-empty token can submit it
\* with Save, and the submission writes the entered value to storage and
\* reloads the page.
C4_SaveSubmitsEnteredToken ==
    (mounted /\ Idle /\ ~Truthy(storage) /\ Truthy(mapboxToken)) =>
        ENABLED (saveToken /\ storage' = mapboxToken /\ ~mounted')

C5_State ==
    /\ Cardinality(Live(maps)) <= 1
    /\ (mounted /\ Truthy(mapboxToken)) => Live(maps) = {mapRef}
    /\ ~Truthy(mapboxToken) => Live(maps) = {}
    /\ Live(Cleanup(cleanupMap, mapRef, maps).maps) = {}

C5_Step ==
    Created(maps') # Created(maps) =>
        /\ mapboxToken' # mapboxToken
        /\ Cardinality(Created(maps')) = Cardinality(Created(maps)) + 1
        /\ \A i \in Live(maps) : maps'[i].status = "removed"

\* C5: at most one instance is live; while the token is non-empty exactly one
\* is, and while it is empty none; the cleanup that runs before the effect
\* is re-run leaves no instance live; an instance is created only by a step
\* that changes the token value, one per such step, and every instance live
\* before that step is disposed by it.
C5_OneInstancePerToken == []C5_State /\ [][C5_Step]_vars

\* A map created at mount from a persisted token, still the only instance
\* after both selections were changed and the overlay rebuilt.
C5_Witness ==
    /\ mounted /\ Idle /\ Truthy(storage)
    /\ variable # DEFAULT_VARIABLE /\ timestep # DEFAULT_TIMESTEP
    /\ Cardinality(Created(maps)) = 1
    /\ mapRef # 0
    /\ getSource(maps[mapRef], WEATHER_SOURCE_ID)
    /\ Overlay(maps[mapRef]).tiles = <<buildWeatherTiles(variable, timestep)>>

C6_State ==
    /\ \A i \in MapIds :
          /\ maps[i].status = "none" => maps[i].removeCalls = 0
          /\ maps[i].status = "live" => maps[i].removeCalls = 0
          /\ maps[i].status = "removed" => (maps[i].removeCalls = 1 /\ mapRef # i)
    /\ ~mounted => (Live(maps) = {} /\ mapRef = 0)
    /\ mapRef # 0 => maps[mapRef].status = "live"
    /\ pc # "idle" => mapRef # 0

C6_Step ==
    \A i \in MapIds :
        /\ maps'[i].removeCalls # maps[i].removeCalls =>
              /\ maps[i].status = "live"
              /\ (mounted /\ ~mounted') \/ mapboxToken' # mapboxToken
              /\ mapRef' # i
        /\ maps[i].status = "removed" => maps'[i] = maps[i]

C7_State ==
    (Idle /\ mapRef # 0 /\ getSource(maps[mapRef], WEATHER_SOURCE_ID)) =>
        Overlay(maps[mapRef]).tiles = <<buildWeatherTiles(variable, timestep)>>

\* The update effect runs a refresh for a selection other than the defaults
\* only after a selection change (at mount it runs with the defaults).
C7_Step ==
    (pc # "idle" /\ pc' = "idle" /\ call.from = "effect"
        /\ (call.variable # DEFAULT_VARIABLE \/ call.timestep # DEFAULT_TIMESTEP)) =>
        /\ mapRef' # 0
        /\ getSource(maps'[mapRef'], WEATHER_SOURCE_ID)
        /\ Overlay(maps'[mapRef']).tiles = <<buildWeatherTiles(variable', timestep')>>
        /\ Len(maps'[mapRef'].sources) = 1

\* C7 (as claimed): whenever no handler is running and the overlay source
\* exists on the live map, its tile URL is that of the selected variable and
\* lead-time, for every interleaving of selection changes with style.load;
\* and when the handling of a selection change ends, the live map carries
\* the overlay of the new selection and no other.
C7_OverlayMatchesSelection == []C7_State /\ [][C7_Step]_vars

\* C8 (as claimed): the selected lead-time is always one of TIMESTEPS.
C8_TimestepInTimesteps == timestep \in TIMESTEPS

ExpectedOverlaySource(v, t) ==
    [id |-> "weather-tiles", type |-> "raster",
     tiles |-> <<buildWeatherTiles(v, t)>>, tileSize |-> 256]

ExpectedOverlayLayer ==
    [id |-> "weather-tiles-layer", type |-> "raster",
     source |-> "weather-tiles", opacity |-> 85]

\* C9: on a style-loaded instance, in whatever state a step has left it,
\* addOrUpdateWeatherLayer for the selected (variable, lead-time) yields
\* exactly one overlay source (the builder's URL, tileSize 256) and one
\* overlay layer (opacity 0.85) on that source, changes nothing else, and
\* yields the same again when repeated; between handlers a loaded instance
\* holds one overlay that a refresh with the same tiles leaves as it is; and
\* without a map instance the call does nothing.
C9_RefreshIdempotent ==
    /\ \A i \in MapIds : (maps[i].status = "live" /\ maps[i].loaded) =>
          /\ LET r1 == addOrUpdateWeatherLayer(maps[i], variable, timestep)
                 r2 == addOrUpdateWeatherLayer(r1, variable, timestep)
             IN  /\ r2 = r1
                 /\ r1.sources = <<ExpectedOverlaySource(variable, timestep)>>
                 /\ r1.layers = <<ExpectedOverlayLayer>>
                 /\ r1 = [maps[i] EXCEPT !.sources = r1.sources,
                                         !.layers = r1.layers]
          /\ Idle =>
                /\ Len(maps[i].sources) = 1
                /\ Line136(Line128(Line124(Line121(maps[i])),
                                   Overlay(maps[i]).tiles)) = maps[i]
    /\ StartCall(0, variable, timestep, "effect") =
          [pc |-> "idle", call |-> IdleCall]
    /\ mapRef = 0 => pc = "idle"

\* A loaded instance between handlers, carrying the overlay of a selection
\* that differs from the defaults.
C9_Witness ==
    /\ Idle /\ mapRef # 0
    /\ maps[mapRef].loaded
    /\ variable = "precipitation_shaded" /\ timestep = 48
    /\ maps[mapRef].sources = <<ExpectedOverlaySource(variable, timestep)>>
    /\ maps[mapRef].layers = <<ExpectedOverlayLayer>>

\* C10 (as claimed): addSource and addLayer are only called on an instance
\* whose style.load event has fired.
C10_AddOnlyAfterStyleLoad ==
    pc \in {"L128", "L136"} => maps[mapRef].loaded

====
